---- MODULE Spec2Model ----
(***************************************************************************)
(* Model of pdfnumbering: the page-number sequencer and the stamp          *)
(* placement of pdfnumbering/core.py (PdfNumberer) and the command line    *)
(* front end of src/pdfnumbering/cli.py (process_args, main).              *)
(*                                                                         *)
(* Lengths are kept in hundredths of a point, so that the fractional       *)
(* anchors 0.49 and 0.99 of cli.py are the integers 49 and 99.             *)
(***************************************************************************)
EXTENDS Integers, Sequences, FiniteSets, TLC

VARIABLES
    \* ---- PdfNumberer fields read by the sequencer (core.py:23-25)
    start, ignore, skip,
    \* ---- the Iterable handed to the numberer
    pages,        \* the document: the page_number of each page, in order
    kind,         \* "list" (re-iterable) or "iterator" (single pass)
    it_cur,       \* items consumed from the single-pass iterator
    \* ---- the suspended generator _create_page_numbers
    gen_cur,      \* items the generator's own list iterator has consumed
    page_number,  \* the local counter of core.py:37
    gen_at,       \* the yield the generator is suspended at
    decisions,    \* everything the generator has yielded so far
    \* ---- add_page_numbering's zip loop
    zip_cur,      \* items zip's own list iterator has consumed
    zip_num,      \* page_number of the current tuple
    zip_page,     \* page of the current tuple
    merged,       \* per page: Untouched, or the stamp merged into it
    pc,
    \* ---- PdfNumberer fields read by _create_stamp (core.py:20-22)
    align, position, margin,
    \* ---- _create_stamp's arguments and result
    mediabox,     \* <<width, height>> of the page being stamped
    text,         \* the text to stamp
    stamp,        \* the overlay _create_stamp returned, None before the call
    \* ---- the command line run (cli.py main)
    args,         \* the argparse namespace
    stdout_isatty,
    error,        \* the error process_args returned, None if none
    numberer,     \* the PdfNumberer main built, None before
    document,     \* the PdfWriter cloned from the input file
    written       \* what the run wrote, in order

seqvars == <<start, ignore, skip, pages, kind, it_cur, gen_cur, page_number,
             gen_at, decisions, zip_cur, zip_num, zip_page, merged, pc>>

seqvars_but_pc == <<start, ignore, skip, pages, kind, it_cur, gen_cur, page_number,
                    gen_at, decisions, zip_cur, zip_num, zip_page, merged>>

stampvars == <<align, position, margin, mediabox, text, stamp>>

clivars == <<args, stdout_isatty, error, numberer, document, written>>

vars == <<seqvars, stampvars, clivars>>

\* ------------------------------------------------------------------ bounds
MaxPages == 5
MaxMarked == 3
MaxStart == 1
MaxCliPages == 2

StartValues == (0 - MaxStart) .. MaxStart
\* page indices that can be named in ignore / skip: every index of the largest
\* document, and one index no document has
Indices == 0 .. MaxPages
Marked == {p \in [ign : SUBSET Indices, skp : SUBSET Indices] :
             Cardinality(p.ign) + Cardinality(p.skp) <= MaxMarked}

\* ------------------------------------------------------------- sequencer
\* Python's None, and an integer n, as values one can compare with each other
None == <<>>
\* a page no stamp was merged into
Untouched == <<>>
Num(n) == <<n>>

\* document.pages of an N-page document: page.page_number is the index
Document(n) == [i \in 1 .. n |-> i - 1]

\* which arm of the if / elif / else of core.py:39-46 a page takes
Branch_SkipFirst(pn, ign, skp) ==
    IF pn \in skp THEN "skipped"
    ELSE IF pn \in ign THEN "ignored"
    ELSE "stamped"
Branch_IgnoreCounts(pn, ign, skp) ==
    IF pn \in ign \/ pn \in skp THEN "skipped" ELSE "stamped"
Branch_SkipIgnored(pn, ign, skp) ==
    IF pn \in ign \/ pn \in skp THEN "ignored" ELSE "stamped"
Branch(pn, ign, skp) ==
    IF pn \in ign THEN "ignored"
    ELSE IF pn \in skp THEN "skipped"
    ELSE "stamped"

\* the value yielded in that arm (core.py:40, 42, 45)
Yielded(arm, n) == IF arm = "stamped" THEN Num(n) ELSE None

\* the statement after the yield, run when the generator is resumed
\* (core.py:43, 46; nothing follows the yield of core.py:40)
CounterAfter_Two(arm, n) == IF arm \in {"skipped", "stamped"} THEN n + 2 ELSE n
CounterAfter(arm, n) == IF arm \in {"skipped", "stamped"} THEN n + 1 ELSE n

\* _create_page_numbers run to exhaustion over the page sequence ps
RECURSIVE Numbers(_, _, _, _)
Numbers(ps, n, ign, skp) ==
    IF ps = <<>> THEN <<>>
    ELSE LET arm == Branch(Head(ps), ign, skp)
         IN  <<Yielded(arm, n)>> \o Numbers(Tail(ps), CounterAfter(arm, n), ign, skp)

CreatePageNumbers(ps, st, ign, skp) == Numbers(ps, st, ign, skp)


\* ------------------------------------------------------------ placement
\* page sizes, positions and margins, in hundredths of a point
PageWidths == {59500, 60000}
PageHeights == {80000, 84200}
PositionComponents == {-3000, -100, 0, 49, 99, 5000}
MarginComponents == {1000, 1500, 2800}
Aligns == {"L", "C", "R"}

Abs(v) == IF v < 0 THEN 0 - v ELSE v

\* math.copysign(m, p): the magnitude of m with the sign of p; the sign of the
\* integer 0 is positive
CopySign_Unsigned(m, p) == Abs(m)
CopySign_ZeroNegative(m, p) == IF p <= 0 THEN 0 - Abs(m) ELSE Abs(m)
CopySign(m, p) == IF p < 0 THEN 0 - Abs(m) ELSE Abs(m)

\* fpdf.FPDF(unit="pt"): the default page margins, 1 cm = 28.35 pt
FpdfMargin == 2835

\* pdf.add_page(format=(width, height)): a page of that size, the cursor at
\* the top left margin
FpdfAddPage(box) ==
    [w |-> box[1], h |-> box[2], l_margin |-> FpdfMargin,
     x |-> FpdfMargin, y |-> FpdfMargin]

\* pdf.set_y(y): back to the left margin; a negative y counts from the bottom
FpdfSetY(pdf, y) ==
    [pdf EXCEPT !.x = pdf.l_margin, !.y = IF y >= 0 THEN y ELSE pdf.h + y]

\* pdf.set_x(x): a negative x counts from the right edge
FpdfSetX(pdf, x) ==
    [pdf EXCEPT !.x = IF x >= 0 THEN x ELSE pdf.w + x]

\* pdf.cell(0, 0, text, align=...): the text, where the cursor is
FpdfCell(pdf, txt, al) ==
    [text |-> txt, x |-> pdf.x, y |-> pdf.y, align |-> al, w |-> pdf.w, h |-> pdf.h]

\* _create_stamp(page, text) of a numberer with these fields
StampWith(box, txt, al, pos, mar) ==
    LET page == FpdfAddPage(box)
        aty  == FpdfSetY(page, CopySign(mar[2], pos[2]) + pos[2])
        atx  == FpdfSetX(aty, CopySign(mar[1], pos[1]) + pos[1])
    IN  FpdfCell(atx, txt, al)

CreateStamp(box, txt) == StampWith(box, txt, align, position, margin)

\* str(page_number): the decimal digits, a minus sign first if negative
DigitChar(d) == <<"0", "1", "2", "3", "4", "5", "6", "7", "8", "9">>[d + 1]
RECURSIVE Digits(_)
Digits(n) ==
    IF n < 10 THEN <<DigitChar(n)>>
    ELSE Digits(n \div 10) \o <<DigitChar(n % 10)>>
Str(n) == IF n < 0 THEN <<"-">> \o Digits(0 - n) ELSE Digits(n)


\* ------------------------------------------------------------ command line
\* a Python string as its characters
Chars(str) ==
    CASE str = "#ff0000" -> <<"#", "f", "f", "0", "0", "0", "0">>
      [] str = "ff0000"  -> <<"f", "f", "0", "0", "0", "0">>
      [] str = "#000000" -> <<"#", "0", "0", "0", "0", "0", "0">>
      [] str = "#xyz"    -> <<"#", "x", "y", "z">>
      [] str = "#12345g" -> <<"#", "1", "2", "3", "4", "5", "g">>
ColorStrings == {"#ff0000", "ff0000", "#000000", "#xyz", "#12345g"}

HexDigits == <<"0", "1", "2", "3", "4", "5", "6", "7", "8", "9",
               "a", "b", "c", "d", "e", "f">>
IsHexDigit(c) == \E k \in DOMAIN HexDigits : HexDigits[k] = c
HexValue(c) == (CHOOSE k \in DOMAIN HexDigits : HexDigits[k] = c) - 1

\* hex2rgb(color): an optional leading "#", then exactly six hexadecimal
\* digits, give the (R, G, B) triple; anything else raises ValueError
Hex2rgb(str) ==
    LET cs  == Chars(str)
        hex == IF cs # <<>> /\ Head(cs) = "#" THEN Tail(cs) ELSE cs
    IN  IF Len(hex) = 6 /\ \A k \in 1 .. 6 : IsHexDigit(hex[k])
        THEN [ok  |-> TRUE,
              rgb |-> [k \in 1 .. 3 |->
                         16 * HexValue(hex[2 * k - 1]) + HexValue(hex[2 * k])]]
        ELSE [ok |-> FALSE, rgb |-> <<>>]

\* an error message, as a value one can compare with None
Err(msg) == <<msg>>

\* Align.coerce(args.text_align[0].upper()) on the three choices of --text-align
AlignCoerce(choice) ==
    CASE choice = "left"   -> "L"
      [] choice = "center" -> "C"
      [] choice = "right"  -> "R"

Anchors == {"bc", "bl", "br", "tr", "tc", "tl"}

\* cli.py:154-176: the anchor sets the position and, in all arms but "tc",
\* the alignment
ApplyPosition(a) ==
    CASE a.position = "bc" -> [a EXCEPT !.text_position = <<0, -100>>, !.text_align = "C"]
      [] a.position = "br" -> [a EXCEPT !.text_position = <<-100, -100>>, !.text_align = "R"]
      [] a.position = "bl" -> [a EXCEPT !.text_position = <<0, -100>>, !.text_align = "L"]
      [] a.position = "tc" -> [a EXCEPT !.text_position = <<49, 99>>]
      [] a.position = "tr" -> [a EXCEPT !.text_position = <<99, 99>>, !.text_align = "R"]
      [] a.position = "tl" -> [a EXCEPT !.text_position = <<0, 99>>, !.text_align = "L"]
      [] OTHER             -> [a EXCEPT !.text_position = <<0, -100>>, !.text_align = "C"]

\* process_args(args): the namespace it returns and the error, if any
ProcessArgs(a, isatty) ==
    IF a.output = "" /\ isatty
    THEN [args |-> a, error |-> Err("--output must be specified or stdout redirected.")]
    ELSE LET color == Hex2rgb(a.text_color)
         IN  IF ~color.ok
             THEN [args |-> a, error |-> Err("argument --text-color")]
             ELSE LET b == [a EXCEPT
                             !.text_color = color.rgb,
                             !.text_align = AlignCoerce(@),
                             !.page_margin =
                                 IF @ = None
                                 THEN <<1000, 100 * (10 + (a.font_size \div 2))>>
                                 ELSE @,
                             !.ignore_pages = [k \in DOMAIN @ |-> @[k] - 1],
                             !.skip_pages = [k \in DOMAIN @ |-> @[k] - 1]]
                  IN  [args |-> ApplyPosition(b), error |-> None]

\* cli.py:188-189: main hands an error to parser.error, which exits
ShouldAbort_Never(err) == FALSE
ShouldAbort(err) == err # None

\* cli.py:191-202: the numberer built from the namespace. main names the
\* fields first_number, ignore_pages, skip_pages, text_align, text_position and
\* page_margin; they are what core.py reads as start, ignore, skip, align,
\* position and margin
MakeNumberer(a) ==
    [first_number  |-> a.first_number,
     ignore_pages  |-> a.ignore_pages,
     skip_pages    |-> a.skip_pages,
     stamp_format  |-> a.stamp_format,
     font_size     |-> a.font_size,
     font_family   |-> a.font_family,
     text_color    |-> a.text_color,
     text_align    |-> a.text_align,
     text_position |-> a.text_position,
     page_margin   |-> a.page_margin]

Range(f) == {f[k] : k \in DOMAIN f}

\* numberer.add_page_numbering(document.pages) over the re-iterable pages of
\* a PdfWriter: each page with its own decision
NumberDocument(nb, n, box) ==
    LET nums == CreatePageNumbers(Document(n), nb.first_number,
                                  Range(nb.ignore_pages), Range(nb.skip_pages))
    IN  [i \in 1 .. n |->
            IF nums[i] = None THEN Untouched
            ELSE StampWith(box, Str(nums[i][1]), nb.text_align,
                           nb.text_position, nb.page_margin)]

\* nothing of a command line run: the state of the variables of main while
\* the numberer is used on its own
NoCli ==
    /\ args = <<>>
    /\ stdout_isatty = FALSE
    /\ error = None
    /\ numberer = None
    /\ document = [opened |-> FALSE, stamps |-> <<>>]
    /\ written = <<>>

\* the cursor the generator's `for page in pages` reads
GenCursor == IF kind = "list" THEN gen_cur ELSE it_cur

\* one next() on the generator: from the yield it is suspended at (or from its
\* first line) to its next yield, or to its end
GenResume ==
    /\ gen_at # "done"
    /\ LET n == CounterAfter(gen_at, page_number)
       IN  /\ page_number' = n
           /\ IF GenCursor >= Len(pages)
              THEN /\ gen_at' = "done"
                   /\ UNCHANGED <<decisions, gen_cur, it_cur>>
              ELSE LET arm == Branch(pages[GenCursor + 1], ignore, skip)
                   IN  /\ gen_at' = arm
                       /\ decisions' = Append(decisions, Yielded(arm, n))
                       /\ IF kind = "list"
                          THEN gen_cur' = gen_cur + 1 /\ UNCHANGED it_cur
                          ELSE it_cur' = it_cur + 1 /\ UNCHANGED gen_cur

\* a PdfNumberer and a document, before anything has iterated over it
InitNumberer ==
    /\ start \in StartValues
    /\ \E m \in Marked : ignore = m.ign /\ skip = m.skp
    /\ \E n \in 0 .. MaxPages : pages = Document(n)
    /\ kind \in {"list", "iterator"}
    /\ it_cur = 0
    /\ gen_cur = 0
    /\ page_number = start
    /\ gen_at = "start"
    /\ decisions = <<>>
    /\ zip_cur = 0
    /\ zip_num = None
    /\ zip_page = None
    /\ merged = [i \in 1 .. Len(pages) |-> Untouched]
    \* the dataclass defaults of core.py:20-22
    /\ align = "L"
    /\ position = <<0, 0>>
    /\ margin = <<2800, 2800>>
    /\ mediabox \in PageWidths \X PageHeights
    /\ text = <<>>
    /\ stamp = None
    /\ NoCli

\* ---- the sequencer consumed on its own, as by list(_create_page_numbers(pages))
InitSeq ==
    /\ InitNumberer
    /\ mediabox = <<60000, 80000>>
    /\ pc = "seq"

SeqNext ==
    /\ pc = "seq"
    /\ GenCursor < Len(pages)
    /\ GenResume
    /\ UNCHANGED <<start, ignore, skip, pages, kind, zip_cur, zip_num, zip_page, merged, pc>>
    /\ UNCHANGED <<stampvars, clivars>>

SeqStop ==
    /\ pc = "seq"
    /\ GenCursor >= Len(pages)
    /\ GenResume
    /\ pc' = "seq_done"
    /\ UNCHANGED <<start, ignore, skip, pages, kind, zip_cur, zip_num, zip_page, merged>>
    /\ UNCHANGED <<stampvars, clivars>>

NextSeq == SeqNext \/ SeqStop

SpecSeq == InitSeq /\ [][NextSeq]_vars

\* ---- add_page_numbering(pages) (core.py:27-34)
InitAdd ==
    /\ InitNumberer
    /\ pc = "add"

\* core.py:31-32: the generator and the zip are created; nothing is read yet
AddPageNumbering ==
    /\ pc = "add"
    /\ pc' = "zip_number"
    /\ UNCHANGED <<start, ignore, skip, pages, kind, it_cur, gen_cur, page_number,
                   gen_at, decisions, zip_cur, zip_num, zip_page, merged>>
    /\ UNCHANGED <<stampvars, clivars>>

\* zip asks the generator for its next item and gets one
ZipNextNumber ==
    /\ pc = "zip_number"
    /\ GenCursor < Len(pages)
    /\ GenResume
    /\ zip_num' = decisions'[Len(decisions')]
    /\ pc' = "zip_page"
    /\ UNCHANGED <<start, ignore, skip, pages, kind, zip_cur, zip_page, merged>>
    /\ UNCHANGED <<stampvars, clivars>>

\* zip asks the generator for its next item and the generator ends
ZipNumbersExhausted ==
    /\ pc = "zip_number"
    /\ GenCursor >= Len(pages)
    /\ GenResume
    /\ pc' = "add_done"
    /\ UNCHANGED <<start, ignore, skip, pages, kind, zip_cur, zip_num, zip_page, merged>>
    /\ UNCHANGED <<stampvars, clivars>>

\* the cursor zip's iter(pages) reads: its own over a list, the iterator
\* itself when pages is one
ZipCursor == IF kind = "list" THEN zip_cur ELSE it_cur

\* zip asks pages for its next item and gets one
ZipNextPage ==
    /\ pc = "zip_page"
    /\ ZipCursor < Len(pages)
    /\ zip_page' = Num(pages[ZipCursor + 1])
    /\ IF kind = "list"
       THEN zip_cur' = zip_cur + 1 /\ UNCHANGED it_cur
       ELSE it_cur' = it_cur + 1 /\ UNCHANGED zip_cur
    /\ pc' = "body"
    /\ UNCHANGED <<start, ignore, skip, pages, kind, gen_cur, page_number,
                   gen_at, decisions, zip_num, merged>>
    /\ UNCHANGED <<stampvars, clivars>>

\* zip asks pages for its next item and there is none: the number it already
\* took from the generator is dropped
ZipPagesExhausted ==
    /\ pc = "zip_page"
    /\ ZipCursor >= Len(pages)
    /\ pc' = "add_done"
    /\ UNCHANGED <<start, ignore, skip, pages, kind, it_cur, gen_cur, page_number,
                   gen_at, decisions, zip_cur, zip_num, zip_page, merged>>
    /\ UNCHANGED <<stampvars, clivars>>

\* core.py:33-34 with a number: the stamp is made and merged into the page
MergePage ==
    /\ pc = "body"
    /\ zip_num # None
    /\ text' = Str(zip_num[1])
    /\ stamp' = CreateStamp(mediabox, text')
    /\ merged' = [merged EXCEPT ![zip_page[1] + 1] = stamp']
    /\ pc' = "zip_number"
    /\ UNCHANGED <<start, ignore, skip, pages, kind, it_cur, gen_cur, page_number,
                   gen_at, decisions, zip_cur, zip_num, zip_page>>
    /\ UNCHANGED <<align, position, margin, mediabox>>
    /\ UNCHANGED clivars

\* core.py:33 with None: the page is left as it is
LeavePage ==
    /\ pc = "body"
    /\ zip_num = None
    /\ pc' = "zip_number"
    /\ UNCHANGED <<start, ignore, skip, pages, kind, it_cur, gen_cur, page_number,
                   gen_at, decisions, zip_cur, zip_num, zip_page, merged>>
    /\ UNCHANGED <<stampvars, clivars>>

NextAdd ==
    \/ AddPageNumbering
    \/ ZipNextNumber
    \/ ZipNumbersExhausted
    \/ ZipNextPage
    \/ ZipPagesExhausted
    \/ MergePage
    \/ LeavePage

SpecAdd == InitAdd /\ [][NextAdd]_vars

\* ---- _create_stamp(page, text) on its own (core.py:48-62)
InitStamp ==
    /\ start = 1
    /\ ignore = {}
    /\ skip = {}
    /\ pages = Document(1)
    /\ kind = "list"
    /\ it_cur = 0
    /\ gen_cur = 0
    /\ page_number = start
    /\ gen_at = "start"
    /\ decisions = <<>>
    /\ zip_cur = 0
    /\ zip_num = None
    /\ zip_page = None
    /\ merged = [i \in 1 .. Len(pages) |-> Untouched]
    /\ align \in Aligns
    /\ position \in PositionComponents \X PositionComponents
    /\ margin \in MarginComponents \X MarginComponents
    /\ mediabox \in PageWidths \X PageHeights
    /\ text \in {Str(1), Str(-12)}
    /\ stamp = None
    /\ NoCli
    /\ pc = "stamp"

CreateStampCall ==
    /\ pc = "stamp"
    /\ stamp' = CreateStamp(mediabox, text)
    /\ pc' = "stamp_done"
    /\ UNCHANGED <<start, ignore, skip, pages, kind, it_cur, gen_cur, page_number,
                   gen_at, decisions, zip_cur, zip_num, zip_page, merged>>
    /\ UNCHANGED <<align, position, margin, mediabox, text>>
    /\ UNCHANGED clivars

NextStamp == CreateStampCall

SpecStamp == InitStamp /\ [][NextStamp]_vars

\* ---- main() (cli.py:181-218), from the namespace parse_args returned
InitCli ==
    /\ start = 1
    /\ ignore = {}
    /\ skip = {}
    /\ pages = <<>>
    /\ kind = "list"
    /\ it_cur = 0
    /\ gen_cur = 0
    /\ page_number = start
    /\ gen_at = "start"
    /\ decisions = <<>>
    /\ zip_cur = 0
    /\ zip_num = None
    /\ zip_page = None
    /\ merged = <<>>
    /\ align = "L"
    /\ position = <<0, 0>>
    /\ margin = <<2800, 2800>>
    /\ mediabox = <<60000, 80000>>
    /\ text = <<>>
    /\ stamp = None
    /\ args \in [first_number  : {1},
                 ignore_pages  : {<<>>, <<1>>},
                 skip_pages    : {<<>>, <<2>>},
                 stamp_format  : {"{}"},
                 font_size     : {12, 13},
                 font_family   : {"Helvetica"},
                 text_color    : ColorStrings,
                 text_align    : {"left", "center", "right"},
                 text_position : {<<-100, -100>>, <<3000, 4000>>},
                 position      : Anchors \cup {""},
                 page_margin   : {None, <<1000, 1500>>},
                 output        : {"", "out.pdf", "in.pdf"},
                 file          : {"in.pdf"}]
    /\ stdout_isatty \in BOOLEAN
    /\ error = None
    /\ numberer = None
    /\ document = [opened |-> FALSE, stamps |-> <<>>]
    /\ written = <<>>
    /\ pc = "process_args"

\* cli.py:187
ProcessArgsCall ==
    /\ pc = "process_args"
    /\ LET r == ProcessArgs(args, stdout_isatty)
       IN  args' = r.args /\ error' = r.error
    /\ pc' = "check_error"
    /\ UNCHANGED <<seqvars_but_pc, stampvars>>
    /\ UNCHANGED <<stdout_isatty, numberer, document, written>>

\* cli.py:188-189: parser.error(error) prints the usage and exits with status 2
ParserError ==
    /\ pc = "check_error"
    /\ ShouldAbort(error)
    /\ pc' = "exit_2"
    /\ UNCHANGED <<seqvars_but_pc, stampvars>>
    /\ UNCHANGED clivars

\* cli.py:191-202
Construct ==
    /\ pc = "check_error"
    /\ ~ShouldAbort(error)
    /\ numberer' = MakeNumberer(args)
    /\ pc' = "open"
    /\ UNCHANGED <<seqvars_but_pc, stampvars>>
    /\ UNCHANGED <<args, stdout_isatty, error, document, written>>

\* cli.py:204: the input file is read; it has some number of pages
OpenDocument ==
    /\ pc = "open"
    /\ \E n \in 0 .. MaxCliPages :
          document' = [opened |-> TRUE, stamps |-> [i \in 1 .. n |-> Untouched]]
    /\ pc' = "number"
    /\ UNCHANGED <<seqvars_but_pc, stampvars>>
    /\ UNCHANGED <<args, stdout_isatty, error, numberer, written>>

\* cli.py:205
NumberPages ==
    /\ pc = "number"
    /\ document' = [document EXCEPT
                      !.stamps = NumberDocument(numberer, Len(@), mediabox)]
    /\ pc' = "write"
    /\ UNCHANGED <<seqvars_but_pc, stampvars>>
    /\ UNCHANGED <<args, stdout_isatty, error, numberer, written>>

\* cli.py:207-208: no --output; args.output becomes the stdout buffer and
\* no branch writes to it
OutputToStdout ==
    /\ pc = "write"
    /\ args.output = ""
    /\ args' = [args EXCEPT !.output = "sys.stdout.buffer"]
    /\ pc' = "done"
    /\ UNCHANGED <<seqvars_but_pc, stampvars>>
    /\ UNCHANGED <<stdout_isatty, error, numberer, document, written>>

\* cli.py:209-213: --output names the input file; the document goes to a
\* temporary file, which is copied over the input while still open, so the
\* copy holds what had been flushed by then
OutputInPlace ==
    /\ pc = "write"
    /\ args.output # ""
    /\ args.output = args.file
    /\ \E content \in {"complete", "truncated"} :
          written' = <<[to |-> "tmp", content |-> "complete"],
                       [to |-> args.output, content |-> content]>>
    /\ pc' = "done"
    /\ UNCHANGED <<seqvars_but_pc, stampvars>>
    /\ UNCHANGED <<args, stdout_isatty, error, numberer, document>>

\* cli.py:214-218: any other --output; the file is written through the open
\* handle and then once more by path
OutputToFile ==
    /\ pc = "write"
    /\ args.output # ""
    /\ args.output # args.file
    /\ written' = <<[to |-> args.output, content |-> "complete"],
                    [to |-> args.output, content |-> "complete"]>>
    /\ pc' = "done"
    /\ UNCHANGED <<seqvars_but_pc, stampvars>>
    /\ UNCHANGED <<args, stdout_isatty, error, numberer, document>>

NextCli ==
    \/ ProcessArgsCall
    \/ ParserError
    \/ Construct
    \/ OpenDocument
    \/ NumberPages
    \/ OutputToStdout
    \/ OutputInPlace
    \/ OutputToFile

SpecCli == InitCli /\ [][NextCli]_vars

\* ------------------------------------------------ claims on the sequencer
SeqDone == pc = "seq_done"
Stamped(d) == d # None
\* the sequence s without its i-th element
Without(s, i) == [k \in 1 .. Len(s) - 1 |-> IF k < i THEN s[k] ELSE s[k + 1]]
\* the pages strictly between positions i and j that take the skip arm
SkippedBetween(i, j) ==
    {k \in (i + 1) .. (j - 1) : pages[k] \in skip /\ pages[k] \notin ignore}
\* positions i < j that both got a number, with no numbered page in between
ConsecutiveStamps(i, j) ==
    /\ i < j
    /\ Stamped(decisions[i])
    /\ Stamped(decisions[j])
    /\ \A k \in (i + 1) .. (j - 1) : ~Stamped(decisions[k])

\* C1: with empty ignore and skip sets the sequencer yields one decision per
\* page, in page order, and they are start, start+1, ..., start+N-1, none of
\* them None, whatever the sign of start.
C1_PlainSequence ==
    (ignore = {} /\ skip = {}) =>
        /\ \A i \in 1 .. Len(decisions) : decisions[i] = Num(start + i - 1)
        /\ SeqDone => Len(decisions) = Len(pages)

C1_Witness ==
    /\ SeqDone
    /\ ignore = {} /\ skip = {}
    /\ start = -1
    /\ decisions = <<Num(-1), Num(0), Num(1)>>

\* C2: a page whose index is in the ignore set gets None and does not move the
\* counter: every other page gets what it would get in the document without
\* that page; 5 pages, start 1, ignore {2}, skip {4} give 1, 2, None, 3, None.
C2_IgnoreKeepsCounter ==
    SeqDone =>
        /\ \A i \in 1 .. Len(pages) :
              pages[i] \in ignore =>
                  /\ decisions[i] = None
                  /\ Without(decisions, i) =
                         CreatePageNumbers(Without(pages, i), start, ignore, skip)
        /\ (Len(pages) = 5 /\ start = 1 /\ ignore = {2} /\ skip = {4}) =>
              decisions = <<Num(1), Num(2), None, Num(3), None>>

C2_Witness ==
    /\ SeqDone
    /\ Len(pages) = 5 /\ start = 1 /\ ignore = {2} /\ skip = {4}
    /\ decisions[3] = None
    /\ decisions[4] = Num(3)

\* C3: a page whose index is in the skip set and not in the ignore set gets
\* None and moves the counter by exactly 1: every later numbered page gets one
\* more than it would get were that index in the ignore set instead.
C3_SkipAdvancesCounter ==
    SeqDone =>
        \A i \in 1 .. Len(pages) :
            (pages[i] \in skip /\ pages[i] \notin ignore) =>
                /\ decisions[i] = None
                /\ LET ignored == CreatePageNumbers(pages, start,
                                                    ignore \cup {pages[i]}, skip)
                   IN  \A j \in (i + 1) .. Len(pages) :
                           Stamped(decisions[j]) =>
                               /\ Stamped(ignored[j])
                               /\ decisions[j][1] = ignored[j][1] + 1

C3_Witness ==
    /\ SeqDone
    /\ \E i \in 1 .. Len(pages) :
          /\ pages[i] \in skip /\ pages[i] \notin ignore
          /\ decisions[i] = None
          /\ \E j \in (i + 1) .. Len(pages) : Stamped(decisions[j])

\* C4: when an index is in both sets the ignore arm wins: the page gets None,
\* the counter stays, and the whole output equals the output with that index
\* taken out of the skip set.
C4_IgnoreWinsOverSkip ==
    SeqDone =>
        \A i \in 1 .. Len(pages) :
            (pages[i] \in ignore /\ pages[i] \in skip) =>
                /\ decisions[i] = None
                /\ decisions =
                       CreatePageNumbers(pages, start, ignore, skip \ {pages[i]})
                /\ Without(decisions, i) =
                       CreatePageNumbers(Without(pages, i), start, ignore, skip)

C4_Witness ==
    /\ SeqDone
    /\ \E i \in 1 .. Len(pages) :
          /\ pages[i] \in ignore /\ pages[i] \in skip
          /\ \E j \in (i + 1) .. Len(pages) : Stamped(decisions[j])

\* C5 as stated: between two numbered pages with no numbered page in between,
\* the later number is the earlier number plus 1.
C5_Original ==
    \A i, j \in 1 .. Len(decisions) :
        ConsecutiveStamps(i, j) => decisions[j][1] = decisions[i][1] + 1

\* C5, amended: between two numbered pages with no numbered page in between,
\* the later number is the earlier number plus 1 plus the number of pages in
\* between that take the skip arm (in the skip set, not in the ignore set);
\* so the numbers strictly increase, by exactly 1 when no page in between is
\* skipped.
C5_StepsCountSkips ==
    \A i, j \in 1 .. Len(decisions) :
        ConsecutiveStamps(i, j) =>
            /\ decisions[j][1] = decisions[i][1] + 1 + Cardinality(SkippedBetween(i, j))
            /\ decisions[j][1] > decisions[i][1]

C5_Witness ==
    /\ SeqDone
    /\ \E i, j \in 1 .. Len(decisions) :
          /\ ConsecutiveStamps(i, j)
          /\ SkippedBetween(i, j) # {}
          /\ \E k \in (i + 1) .. (j - 1) : pages[k] \in ignore

\* ------------------------------------------------ claims on the placement
StampDone == pc = "stamp_done"
\* margin (10, 15), in hundredths of a point
ClaimMargin == <<1000, 1500>>

\* C6 as stated: with margin (10, 15), position (0, -1) puts the text at
\* (10, H-15) and position (-1, -1) at (W-10, H-15), on a page of any
\* width W and height H.
C6_Original ==
    (StampDone /\ margin = ClaimMargin) =>
        /\ position = <<0, -100>> =>
              stamp.x = 1000 /\ stamp.y = mediabox[2] - 1500
        /\ position = <<-100, -100>> =>
              stamp.x = mediabox[1] - 1000 /\ stamp.y = mediabox[2] - 1500

\* C6, amended: with margin (10, 15), position (0, -1) puts the text at
\* (10, H-16) and position (-1, -1) at (W-11, H-16): a position component of
\* -1 pins the text the margin plus 1 point inside the high edge, because the
\* component itself is added to the signed margin.
C6_MinusOneIsMarginPlusOne ==
    (StampDone /\ margin = ClaimMargin) =>
        /\ position = <<0, -100>> =>
              stamp.x = 1000 /\ stamp.y = mediabox[2] - 1600
        /\ position = <<-100, -100>> =>
              stamp.x = mediabox[1] - 1100 /\ stamp.y = mediabox[2] - 1600

C6_Witness ==
    /\ StampDone
    /\ margin = ClaimMargin
    /\ position = <<-100, -100>>
    /\ mediabox = <<60000, 80000>>
    /\ stamp.x = 58900
    /\ stamp.y = 78400

\* C8: a position component p >= 0 with a positive margin m resolves to
\* m + p, whatever the page's width and height; position (0.99, 0.99) with
\* margin (10, 15) on a 600x800 page resolves to x = 10.99 and y = 15.99.
C8_NonNegativeIsMarginPlusPosition ==
    StampDone =>
        /\ (position[1] >= 0 /\ margin[1] > 0) => stamp.x = margin[1] + position[1]
        /\ (position[2] >= 0 /\ margin[2] > 0) => stamp.y = margin[2] + position[2]
        /\ (position = <<99, 99>> /\ margin = ClaimMargin /\ mediabox = <<60000, 80000>>)
              => (stamp.x = 1099 /\ stamp.y = 1599)

C8_Witness ==
    /\ StampDone
    /\ position = <<99, 99>>
    /\ margin = ClaimMargin
    /\ mediabox = <<60000, 80000>>
    /\ stamp.x = 1099
    /\ stamp.y = 1599

\* --------------------------------------- claims on add_page_numbering
AddDone == pc = "add_done"

\* C10: whether pages is a list or a single-pass iterator, once
\* add_page_numbering has returned a page carries a stamp exactly if the
\* sequencer's decision for that page is a number, the stamp's text is that
\* number, and the pages whose decision is None are untouched.
C10_StampsFollowDecisions ==
    AddDone =>
        \A i \in 1 .. Len(pages) :
            LET d == CreatePageNumbers(pages, start, ignore, skip)[i]
            IN  IF d = None
                THEN merged[i] = Untouched
                ELSE merged[i] # Untouched /\ merged[i].text = Str(d[1])

\* ------------------------------------------- claims on the command line
\* the alignment the claim gives each anchor
ClaimedAlign(anchor) ==
    CASE anchor \in {"bl", "tl"} -> "L"
      [] anchor \in {"bc", "tc"} -> "C"
      [] anchor \in {"br", "tr"} -> "R"

\* C7: after process_args, when --position is one of the six anchors the
\* alignment is the anchor's (left for bl and tl, center for bc and tc, right
\* for br and tr) whatever --text-align was, bottom-center gives position
\* (0, -1) and top-right gives position (0.99, 0.99).
C7_AnchorDecidesPlacement ==
    (pc # "process_args" /\ error = None /\ args.position \in Anchors) =>
        /\ args.text_align = ClaimedAlign(args.position)
        /\ args.position = "bc" => args.text_position = <<0, -100>>
        /\ args.position = "tr" => args.text_position = <<99, 99>>

\* C9: once process_args has reported an error (no output with stdout a
\* terminal, or an unparsable text color) the run never builds the numberer,
\* opens the document, stamps a page or writes output: it can only exit.
C9_ErrorAbortsBeforePages ==
    error # None =>
        /\ pc \in {"check_error", "exit_2"}
        /\ numberer = None
        /\ ~document.opened
        /\ document.stamps = <<>>
        /\ written = <<>>

C9_Witness ==
    /\ pc = "exit_2"
    /\ error = Err("argument --text-color")
    /\ args.text_color = "#xyz"
    /\ args.output = "out.pdf"
    /\ ~document.opened

====
